---- MODULE Spec2Model ----
(***************************************************************************)
(* Client-side state synchronisation layer of the Supreme Jarvis GUI:      *)
(* the redux slices (chat, socket, system), the socket.io connection       *)
(* thunks and the component handlers that dispatch into the slices.        *)
(*                                                                         *)
(* Every handler runs to completion on the UI event loop, so one handler   *)
(* invocation is one action.  Text is a TLA+ string; an optional value is  *)
(* None (absent / undefined / null) or Some(v).                            *)
(***************************************************************************)
EXTENDS Integers, Sequences, FiniteSets, TLC

\* ------------------------------------------------------------------ bounds
MaxMsgs == 3        \* longest message log explored (seed included)
MaxSockets == 2     \* socket objects io() may create in one run
MaxTimers == 2      \* reconnect timers pending at the same time
\* request_system_status packets a socket may hold in its send buffer
MaxBuffered == 1
\* the last millisecond of Date.now() explored
MaxClock == 3
\* fetches of one endpoint MetricsPanel may have in flight
MaxFetches == 2

\* ------------------------------------------------------- optional values
None == <<>>
Some(v) == <<v>>

\* `a || d` of JavaScript for a possibly-missing string: undefined and ""
\* are falsy.
OrStr(opt, d) == IF opt = None \/ opt[1] = "" THEN d ELSE opt[1]

\* `a || d` for a possibly-missing number: undefined and 0 are falsy.
OrNum(opt, d) == IF opt = None \/ opt[1] = 0 THEN d ELSE opt[1]

\* `a || d` for a possibly-missing boolean.
OrBool(opt, d) == IF opt = None \/ opt[1] = FALSE THEN d ELSE opt[1]

\* `a || d` for a possibly-missing array: every array, [] included, is truthy.
OrList(opt, d) == IF opt = None THEN d ELSE opt[1]

\* ------------------------------------------------------------------- text
Whitespace == {" ", "\n", "\t"}

\* The texts a user can have in the input box, and their characters.
Inputs == {"", " ", " hi"}

\* The quick-action templates of the sidebar (one stands for all of them).
Templates == {"Help"}

Chars(s) ==
    CASE s = ""     -> <<>>
      [] s = " "    -> <<" ">>
      [] s = " hi"  -> <<" ", "h", "i">>
      [] s = "Help" -> <<"H", "e", "l", "p">>

RECURSIVE TrimStart(_)
TrimStart(cs) ==
    IF cs # <<>> /\ Head(cs) \in Whitespace THEN TrimStart(Tail(cs)) ELSE cs

RECURSIVE TrimEnd(_)
TrimEnd(cs) ==
    IF cs # <<>> /\ cs[Len(cs)] \in Whitespace
    THEN TrimEnd(SubSeq(cs, 1, Len(cs) - 1))
    ELSE cs

\* String.prototype.trim on the characters of a text.
Trim(cs) == TrimEnd(TrimStart(cs))

\* ------------------------------------------------------------- chat slice
WelcomeText == "Welcome to Supreme Jarvis! I'm ready to assist you with my god-like capabilities. How can I help you today?"
NotConnectedText == "Not connected to Supreme Jarvis backend. Please check the connection."
NoResponseText == "No response received"
UnknownErrorText == "Unknown error occurred"

\* A Message; the optional fields are None when the object literal omits them.
Msg(type, content, confidence, enginesUsed, processingTime) ==
    [type |-> type, content |-> content, confidence |-> confidence,
     enginesUsed |-> enginesUsed, processingTime |-> processingTime]

PlainMsg(type, content) == Msg(type, content, None, None, None)

chatInitialState ==
    [messages |-> <<PlainMsg("system", WelcomeText)>>,
     isProcessing |-> FALSE,
     activeEngines |-> <<>>,
     currentInput |-> ""]

\* A slip of addMessage: unshift instead of push.
addMessage_Unshift(state, payload) ==
    [state EXCEPT !.messages = <<payload>> \o @]

addMessage(state, payload) ==
    [state EXCEPT !.messages = Append(@, payload)]

setProcessing(state, payload) == [state EXCEPT !.isProcessing = payload]

setActiveEngines(state, payload) == [state EXCEPT !.activeEngines = payload]

setCurrentInput(state, payload) == [state EXCEPT !.currentInput = payload]

\* A slip of clearMessages: the whole slice goes back to initialState.
clearMessages_ResetsSlice(state) == chatInitialState

\* A slip of clearMessages: the log is left empty.
clearMessages_Empties(state) == [state EXCEPT !.messages = <<>>]

\* A slip of clearMessages: the draft is reset with the log.
clearMessages_ClearsInput(state) ==
    [state EXCEPT !.messages = chatInitialState.messages, !.currentInput = ""]

clearMessages(state) ==
    [state EXCEPT !.messages = <<chatInitialState.messages[1]>>]

\* ----------------------------------------------------------- socket slice
NoSocket == 0
SocketIds == 1..MaxSockets

socketInitialState == [socket |-> NoSocket, isConnected |-> FALSE, error |-> None]

setSocket(state, payload) == [state EXCEPT !.socket = payload]

setConnected(state, payload) == [state EXCEPT !.isConnected = payload]

setError(state, payload) == [state EXCEPT !.error = payload]

\* A slip of clearSocket: the error is left standing.
clearSocket_KeepsError(state) ==
    [state EXCEPT !.socket = NoSocket, !.isConnected = FALSE]

clearSocket(state) ==
    [state EXCEPT !.socket = NoSocket, !.isConnected = FALSE, !.error = None]

\* ----------------------------------------------------------- system slice
Engine(name, status, activity) ==
    [name |-> name, status |-> status, activity |-> activity]

systemInitialState ==
    [engines |-> <<>>,
     overallHealth |-> "unknown",
     godlikeMode |-> FALSE,
     activeSessions |-> 0,
     uptime |-> "0m"]

\* A slip of setEngines: the list is merged into the old one.
setEngines_Appends(state, payload) == [state EXCEPT !.engines = @ \o payload]

setEngines(state, payload) == [state EXCEPT !.engines = payload]

setSystemStatus(state, payload) ==
    [state EXCEPT !.overallHealth = payload.overallHealth,
                  !.godlikeMode = payload.godlikeMode,
                  !.activeSessions = payload.activeSessions,
                  !.uptime = payload.uptime]

\* Object.assign(engine, updates) with a Partial<Engine>: the fields the
\* update has overwrite the entry's, the others stay.
ObjectAssign(engine, updates) ==
    [name |-> IF updates.name = None THEN engine.name ELSE updates.name[1],
     status |-> IF updates.status = None THEN engine.status ELSE updates.status[1],
     activity |-> IF updates.activity = None THEN engine.activity
                  ELSE updates.activity[1]]

\* engines.find(e => e.name === name): the index of the first entry with
\* that name, 0 when there is none.
FindEngine(engines, name) ==
    IF \E i \in 1..Len(engines) : engines[i].name = name
    THEN CHOOSE i \in 1..Len(engines) :
             /\ engines[i].name = name
             /\ \A j \in 1..(i - 1) : engines[j].name # name
    ELSE 0

\* A variant of updateEngine that appends an entry for an unknown name.
updateEngine_Upsert(state, payload) ==
    LET i == FindEngine(state.engines, payload.name)
    IN  IF i = 0
        THEN [state EXCEPT !.engines =
                 Append(@, ObjectAssign(Engine(payload.name, "idle", 0),
                                        payload.updates))]
        ELSE [state EXCEPT !.engines[i] = ObjectAssign(@, payload.updates)]

updateEngine(state, payload) ==
    LET i == FindEngine(state.engines, payload.name)
    IN  IF i = 0
        THEN state
        ELSE [state EXCEPT !.engines[i] = ObjectAssign(@, payload.updates)]

\* ---------------------------------------------------------------- store
\* An action as createSlice's action creators build it: the type is the
\* slice's name, a slash and the reducer's name.
ReduxAction(type, payload) == [type |-> type, payload |-> payload]

\* chatSlice.reducer: the case reducers of the slice, any other action
\* leaves the state.
chatReducer(state, action) ==
    CASE action.type = "chat/addMessage" -> addMessage(state, action.payload)
      [] action.type = "chat/setProcessing" -> setProcessing(state, action.payload)
      [] action.type = "chat/setActiveEngines" -> setActiveEngines(state, action.payload)
      [] action.type = "chat/setCurrentInput" -> setCurrentInput(state, action.payload)
      [] action.type = "chat/clearMessages" -> clearMessages(state)
      [] OTHER -> state

\* socketSlice.reducer.
socketReducer(state, action) ==
    CASE action.type = "socket/setSocket" -> setSocket(state, action.payload)
      [] action.type = "socket/setConnected" -> setConnected(state, action.payload)
      [] action.type = "socket/setError" -> setError(state, action.payload)
      [] action.type = "socket/clearSocket" -> clearSocket(state)
      [] OTHER -> state

\* A slip of systemSlice: it also answers clearMessages, with its
\* initial state.
systemReducer_HandlesClear(state, action) ==
    CASE action.type = "system/setEngines" -> setEngines(state, action.payload)
      [] action.type = "system/updateEngine" -> updateEngine(state, action.payload)
      [] action.type = "system/setSystemStatus" -> setSystemStatus(state, action.payload)
      [] action.type = "chat/clearMessages" -> systemInitialState
      [] OTHER -> state

\* systemSlice.reducer.
systemReducer(state, action) ==
    CASE action.type = "system/setEngines" -> setEngines(state, action.payload)
      [] action.type = "system/updateEngine" -> updateEngine(state, action.payload)
      [] action.type = "system/setSystemStatus" -> setSystemStatus(state, action.payload)
      [] OTHER -> state

\* The reducer configureStore combines: every slice reducer sees every
\* action.
rootReducer(state, action) ==
    [chat |-> chatReducer(state.chat, action),
     socket |-> socketReducer(state.socket, action),
     system |-> systemReducer(state.system, action)]

\* --------------------------------------------------------- ControlCentre
\* The settings map of ControlCentre: two of its switches and one of its
\* sliders (in tenths), with the defaults of useState.
controlInitialState ==
    [systemAccess |-> FALSE, privacyMode |-> TRUE, responseSpeed |-> 3]

SwitchKeys == {"systemAccess", "privacyMode"}
SliderKeys == {"responseSpeed"}
SliderValues == {3, 5}

\* A slip of handleControlChange: the other keys fall back to their defaults.
handleControlChange_ResetsOthers(prev, setting, checked) ==
    [controlInitialState EXCEPT ![setting] = checked]

\* handleControlChange(setting)(event): { ...prev, [setting]: checked }
handleControlChange(prev, setting, checked) == [prev EXCEPT ![setting] = checked]

\* handleSliderChange(setting)(event, newValue): { ...prev, [setting]: newValue }
handleSliderChange(prev, setting, newValue) == [prev EXCEPT ![setting] = newValue]

\* An event handed to socket.emit.
Emitted(event, payload) == [event |-> event, payload |-> payload]

\* saveSettings: with a socket the whole map is emitted, without one the
\* call only logs.
saveSettings(socket, settings, out) ==
    IF socket # NoSocket
    THEN out \cup {Emitted("update_control_settings", Some([settings |-> settings]))}
    ELSE out

\* The mount effect of ControlCentre: with a socket it asks for the models
\* and for the settings; without one it does nothing.
controlEffect(socket, out) ==
    IF socket # NoSocket
    THEN out \cup {Emitted("get_ai_models", None), Emitted("get_control_settings", None)}
    ELSE out

\* ---------------------------------------------------------- MetricsPanel
\* systemMetrics, performanceReport and error of MetricsPanel's useState.
metricsInitialState ==
    [systemMetrics |-> None, performanceReport |-> None, error |-> None]

Endpoints == {"metrics", "performance"}

noFetches == [ep \in Endpoints |-> 0]

\* The JSON values a response body may hold.
MetricsData == {"m1", "m2"}

\* What becomes of a fetch: its promise is rejected (no response at all),
\* or it resolves with a response, of an ok status or an error status,
\* whose body is JSON or is not (None). fetch resolves whatever the
\* status of the response is.
FetchOutcomes ==
    {[rejected |-> TRUE, ok |-> FALSE, body |-> None]}
        \cup {[rejected |-> FALSE, ok |-> o, body |-> b] :
                  o \in BOOLEAN, b \in {None} \cup {Some(d) : d \in MetricsData}}

\* The chain .then(response => response.json()).then(...).catch(...)
\* takes its catch when the fetch was rejected or response.json() was;
\* response.ok is not read.
Caught(res) == res.rejected \/ res.body = None

\* requestMetrics: one fetch of /api/system/metrics and one of
\* /api/system/performance.
requestMetrics(inFlight) == [ep \in Endpoints |-> inFlight[ep] + 1]

\* The body of MetricsPanel's effect: nothing without a socket in the
\* store, otherwise requestMetrics at once (and the interval).
metricsEffect(socket, inFlight) ==
    IF socket = NoSocket THEN inFlight ELSE requestMetrics(inFlight)

\* The effect has the dependency `socket`: while MetricsPanel stays
\* mounted it runs again when the store holds another socket.
metricsRerun(isMounted, oldSocket, newSocket, inFlight) ==
    IF isMounted /\ oldSocket # newSocket
    THEN metricsEffect(newSocket, inFlight)
    ELSE inFlight

\* .then(data => ...): the field is replaced and the error cleared.
onLoaded(state, ep, data) ==
    IF ep = "metrics"
    THEN [state EXCEPT !.systemMetrics = Some(data), !.error = None]
    ELSE [state EXCEPT !.performanceReport = Some(data), !.error = None]

\* .catch(err => ...): the fetch was rejected or its body was no JSON;
\* only the error is set.
onFailed(state, ep) ==
    IF ep = "metrics"
    THEN [state EXCEPT !.error = Some("Failed to load system metrics")]
    ELSE [state EXCEPT !.error = Some("Failed to load performance report")]

VARIABLES
    chat,          \* state.chat
    sock,          \* state.socket
    system,        \* state.system
    sockets,       \* the socket.io socket objects created so far, by id
    wire,          \* per socket: chat_message requests emitted, not yet answered
    showDashboard, \* App's view switch; ChatInterface is mounted iff FALSE
    mounted,       \* App is mounted
    timers,        \* reconnect timers set by runConnectionTest, not yet fired
    testing,       \* the socket runConnectionTest captured, while it awaits
    panel,         \* StatusPanel's effect: the socket of its interval and listeners
    listeners,     \* per socket: the handlers ChatInterface and StatusPanel have on it
    intervals,     \* the setInterval timers of StatusPanel and MetricsPanel that are live
    sendBuffer,    \* per socket: request_system_status emitted while not connected
    clock,         \* Date.now(), in milliseconds
    ids,           \* the id of each message of chat.messages, in the same order
    requested,     \* chat_message requests emitted since the log was last cleared
    tabValue,      \* SupremeDashboard's tab; ControlCentre is mounted on tab 2
    controlSettings, \* ControlCentre's local settings map
    outbound,      \* the events ControlCentre handed to its socket
    metrics,       \* MetricsPanel's local state
    fetches,       \* per endpoint: fetches of MetricsPanel in flight
    last           \* the handler that ran last and how it went

vars == <<chat, sock, system, sockets, wire, showDashboard, mounted, timers, testing,
          panel, listeners, intervals, sendBuffer, clock, ids, requested, tabValue,
          controlSettings, outbound, metrics, fetches, last>>

\* The state of the dashboard view.
dashVars == <<tabValue, controlSettings, outbound, metrics, fetches>>

\* ------------------------------------------------------------ the sockets
\* A socket object is "unborn" until io() creates it, then "connecting"
\* for its first attempt, "retrying" while socket.io reconnects on its own
\* after a drop or a failed attempt (no `reconnection: false` is passed to
\* io()), "connected", or "closed"
\* once socket.disconnect() was called on it.
SocketStatus == {"unborn", "connecting", "retrying", "connected", "closed"}

\* socket && socket.connected
IsLive(s) == s # NoSocket /\ sockets[s] = "connected"

Created == {s \in SocketIds : sockets[s] # "unborn"}

\* The ChatInterface effect keeps its three listeners on the store's socket
\* for as long as the component is mounted (chat view of a mounted App).
ChatMounted == mounted /\ ~showDashboard

\* MetricsPanel is on tab 3; its interval runs once its effect ran with a
\* socket in the store.
MetricsMounted == mounted /\ showDashboard /\ tabValue = 3

ChatListening(s) == ChatMounted /\ s # NoSocket /\ sock.socket = s

\* ------------------------------------------------- StatusPanel's effect
\* StatusPanel sits in the same branch of App's view switch. Its effect
\* holds an interval and two listeners, each on the socket the effect ran
\* with; NoSocket when there is none.
panelInitialState == [interval |-> NoSocket, listening |-> NoSocket]

StatusListening(s) == s # NoSocket /\ panel.listening = s

\* requestStatus: socket.emit('request_system_status'), with no look at
\* socket.connected. socket.io sends the packet at once on a connected
\* socket and puts it into the socket's send buffer otherwise.
requestStatus(buffer, socks, s) ==
    IF socks[s] = "connected"
    THEN buffer
    ELSE [buffer EXCEPT ![s] = @ + 1]

\* The body of the effect: nothing without a socket; otherwise one request
\* at once, the interval, and the two listeners.
statusEffect(p, socket, buffer, socks) ==
    IF socket = NoSocket
    THEN [panel |-> p, sendBuffer |-> buffer, polled |-> FALSE]
    ELSE [panel |-> [interval |-> socket, listening |-> socket],
          sendBuffer |-> requestStatus(buffer, socks, socket),
          polled |-> TRUE]

\* A slip of the cleanup: clearInterval is left out.
statusCleanup_KeepsInterval(p) == [p EXCEPT !.listening = NoSocket]

\* The cleanup the effect returns: clearInterval and the two socket.off.
statusCleanup(p) == [p EXCEPT !.interval = NoSocket, !.listening = NoSocket]

\* React runs the effect when StatusPanel mounts and when `socket` changes
\* while it is mounted, after the cleanup of the run before; unmounting
\* runs the cleanup alone.
renderStatusPanel(p, wasMounted, isMounted, oldSocket, newSocket, buffer, socks) ==
    IF wasMounted /\ isMounted /\ oldSocket = newSocket
    THEN [panel |-> p, sendBuffer |-> buffer, polled |-> FALSE]
    ELSE LET c == IF wasMounted THEN statusCleanup(p) ELSE p
         IN  IF isMounted
             THEN statusEffect(c, newSocket, buffer, socks)
             ELSE [panel |-> c, sendBuffer |-> buffer, polled |-> FALSE]

\* ---------------------------------------------------- socket listeners
\* For each socket, how many handlers ChatInterface has on each of
\* chat_response, processing_status and error, and how many StatusPanel
\* has on each of system_status and engine_activity. A component puts all
\* its handlers on and takes them off together.
noListeners == [s \in SocketIds |-> [chat |-> 0, status |-> 0]]

\* The three socket.on of ChatInterface's effect; the effect returns at
\* once without a socket.
chatListenersOn(l, socket) ==
    IF socket = NoSocket THEN l ELSE [l EXCEPT ![socket].chat = @ + 1]

\* A slip of ChatInterface's cleanup: it returns nothing.
chatListenersOff_Missing(l, socket) == l

\* The cleanup of ChatInterface's effect: socket.off with the handler of
\* that run, which takes off that handler and no other.
chatListenersOff(l, socket) ==
    IF socket = NoSocket \/ l[socket].chat = 0
    THEN l
    ELSE [l EXCEPT ![socket].chat = @ - 1]

\* The two socket.on of StatusPanel's effect.
statusListenersOn(l, socket) ==
    IF socket = NoSocket THEN l ELSE [l EXCEPT ![socket].status = @ + 1]

\* The two socket.off of StatusPanel's cleanup.
statusListenersOff(l, socket) ==
    IF socket = NoSocket \/ l[socket].status = 0
    THEN l
    ELSE [l EXCEPT ![socket].status = @ - 1]

\* Both effects have the dependencies [socket, dispatch]: React runs the
\* cleanups of the run before, with the socket of that run, and then the
\* effects with the new socket, when the components mount, unmount or see
\* another socket in the store.
renderListeners(l, wasMounted, isMounted, oldSocket, newSocket) ==
    IF wasMounted /\ isMounted /\ oldSocket = newSocket
    THEN l
    ELSE LET c == IF wasMounted
                  THEN statusListenersOff(chatListenersOff(l, oldSocket), oldSocket)
                  ELSE l
         IN  IF isMounted
             THEN statusListenersOn(chatListenersOn(c, newSocket), newSocket)
             ELSE c

\* ------------------------------------------------------- the intervals
\* How many timers of setInterval(requestStatus, 5000) in StatusPanel and
\* of setInterval(requestMetrics, 10000) in MetricsPanel are live.
noIntervals == [status |-> 0, metrics |-> 0]

\* The effect of either component returns at once without a socket;
\* otherwise it starts one timer.
setInterval(iv, component, socket) ==
    IF socket = NoSocket THEN iv ELSE [iv EXCEPT ![component] = @ + 1]

\* A slip of the cleanup: clearInterval is left out.
clearInterval_Skipped(iv, component, socket) == iv

\* The cleanup of a run that had a socket: clearInterval(interval) stops
\* the timer of that run.
clearInterval(iv, component, socket) ==
    IF socket = NoSocket \/ iv[component] = 0
    THEN iv
    ELSE [iv EXCEPT ![component] = @ - 1]

\* One component's effect, with the dependency `socket`: the cleanup of
\* the run before, then the effect.
renderInterval(iv, component, wasMounted, isMounted, oldSocket, newSocket) ==
    IF wasMounted /\ isMounted /\ oldSocket = newSocket
    THEN iv
    ELSE LET c == IF wasMounted THEN clearInterval(iv, component, oldSocket) ELSE iv
         IN  IF isMounted THEN setInterval(c, component, newSocket) ELSE c

renderIntervals(iv, statusWas, statusIs, metricsWas, metricsIs, oldSocket, newSocket) ==
    renderInterval(renderInterval(iv, "status", statusWas, statusIs,
                                  oldSocket, newSocket),
                   "metrics", metricsWas, metricsIs, oldSocket, newSocket)

\* ------------------------------------------------ ChatInterface handlers
\* A slip of the guard: isProcessing is not looked at.
CanSubmit_IgnoresProcessing(state) ==
    Trim(Chars(state.currentInput)) # <<>>

\* The guard of handleSendMessage: `!currentInput.trim() || isProcessing`
\* returns early.
CanSubmit(state) ==
    /\ Trim(Chars(state.currentInput)) # <<>>
    /\ ~state.isProcessing

\* The chat_message payload (user_profile is a constant of the session).
ChatMessagePayload(messageToSend) == [message |-> messageToSend]

\* A slip of handleSendMessage: the fallback branch forgets
\* setProcessing(false).
handleSendMessage_LeavesProcessing(state, connected) ==
    LET s3 == setCurrentInput(
                  setProcessing(
                      addMessage(state, PlainMsg("user", state.currentInput)),
                      TRUE),
                  "")
    IN  IF connected
        THEN [chat |-> s3, emitted |-> <<ChatMessagePayload(state.currentInput)>>]
        ELSE [chat |-> addMessage(s3, PlainMsg("system", NotConnectedText)),
              emitted |-> <<>>]

\* A slip of handleSendMessage: the input is cleared before it is read
\* for the payload.
handleSendMessage_SendsClearedInput(state, connected) ==
    LET s3 == setCurrentInput(
                  setProcessing(
                      addMessage(state, PlainMsg("user", state.currentInput)),
                      TRUE),
                  "")
    IN  IF connected
        THEN [chat |-> s3, emitted |-> <<ChatMessagePayload(s3.currentInput)>>]
        ELSE [chat |-> addMessage(setProcessing(s3, FALSE),
                                  PlainMsg("system", NotConnectedText)),
              emitted |-> <<>>]

\* handleSendMessage past its guard: the chat state it leaves and the
\* chat_message events it emits, given `socket && socket.connected`.
handleSendMessage(state, connected) ==
    LET userMessage == PlainMsg("user", state.currentInput)
        s1 == addMessage(state, userMessage)
        s2 == setProcessing(s1, TRUE)
        messageToSend == state.currentInput
        s3 == setCurrentInput(s2, "")
    IN  IF connected
        THEN [chat |-> s3, emitted |-> <<ChatMessagePayload(messageToSend)>>]
        ELSE [chat |-> addMessage(setProcessing(s3, FALSE),
                                  PlainMsg("system", NotConnectedText)),
              emitted |-> <<>>]

\* handleChatResponse: a null payload throws inside the try, and the catch
\* resets the two flags without a message.
handleChatResponse(state, response) ==
    IF response = None
    THEN setActiveEngines(setProcessing(state, FALSE), <<>>)
    ELSE LET r == response[1]
             message == Msg("assistant",
                            OrStr(r.response, NoResponseText),
                            Some(OrNum(r.confidence, 0)),
                            Some(OrList(r.engines_used, <<>>)),
                            Some(OrNum(r.processing_time, 0)))
         IN  setActiveEngines(setProcessing(addMessage(state, message), FALSE), <<>>)

\* A slip of handleProcessingStatus: the event also ends the request.
handleProcessingStatus_EndsProcessing(state, status) ==
    IF status = None
    THEN state
    ELSE setProcessing(setActiveEngines(state, OrList(status[1].engines_active, <<>>)),
                       FALSE)

\* handleProcessingStatus: a null payload throws, the catch only logs.
handleProcessingStatus(state, status) ==
    IF status = None
    THEN state
    ELSE setActiveEngines(state, OrList(status[1].engines_active, <<>>))

\* handleError: the two flags are reset first; `error.message` of a null
\* payload then throws out of the handler before the message is built.
handleError(state, error) ==
    LET s1 == setActiveEngines(setProcessing(state, FALSE), <<>>)
    IN  IF error = None
        THEN s1
        ELSE addMessage(s1, PlainMsg("system",
                 "Error: " \o OrStr(error[1].message, UnknownErrorText)))

\* Whether the listener of an inbound event lets an exception out: only
\* handleError has no try/catch, and `error.message` of a payload that is
\* not there throws.
handlerThrows(op, payload) ==
    IF op = "error" THEN payload = None ELSE FALSE

\* --------------------------------------------------- StatusPanel handlers
\* A slip of handleSystemStatus: the engines of the payload are left out.
handleSystemStatus_SkipsEngines(state, status) ==
    IF status = None
    THEN state
    ELSE LET st == status[1]
         IN  setSystemStatus(state,
                 [overallHealth |-> OrStr(st.overall_health, "unknown"),
                  godlikeMode |-> OrBool(st.godlike_mode, FALSE),
                  activeSessions |-> OrNum(st.active_sessions, 1),
                  uptime |-> OrStr(st.uptime, "0m")])

\* handleSystemStatus: setEngines when the payload has engines, then
\* setSystemStatus with the `||` defaults; a null payload does nothing.
handleSystemStatus(state, status) ==
    IF status = None
    THEN state
    ELSE LET st == status[1]
             s1 == IF st.engines # None THEN setEngines(state, st.engines[1])
                   ELSE state
         IN  setSystemStatus(s1,
                 [overallHealth |-> OrStr(st.overall_health, "unknown"),
                  godlikeMode |-> OrBool(st.godlike_mode, FALSE),
                  activeSessions |-> OrNum(st.active_sessions, 1),
                  uptime |-> OrStr(st.uptime, "0m")])

\* A slip of handleEngineActivity: the event is treated as a full status.
handleEngineActivity_ResetsAggregates(state, activity) ==
    IF activity = None \/ activity[1].engines = None
    THEN state
    ELSE setSystemStatus(setEngines(state, activity[1].engines[1]),
             [overallHealth |-> "unknown", godlikeMode |-> FALSE,
              activeSessions |-> 0, uptime |-> "0m"])

\* handleEngineActivity: setEngines when the payload has engines.
handleEngineActivity(state, activity) ==
    IF activity = None \/ activity[1].engines = None
    THEN state
    ELSE setEngines(state, activity[1].engines[1])

\* ------------------------------------------- the handlers of connectSocket
\* socket.on('connect')
onConnect(state) == setError(setConnected(state, TRUE), None)

\* socket.on('disconnect')
onDisconnect(state) == setConnected(state, FALSE)

\* A slip of the 'connect_error' handler: setConnected(false) is left out.
onConnectError_KeepsConnected(state, message) == setError(state, Some(message))

\* socket.on('connect_error')
onConnectError(state, message) ==
    setConnected(setError(state, Some(message)), FALSE)

\* --------------------------------------------------------- socket thunks
\* connectSocket: io() makes a new socket object, the three lifecycle
\* handlers are put on it, and it becomes the store's socket.
connectSocket(state, socks) ==
    LET id == Cardinality({s \in SocketIds : socks[s] # "unborn"}) + 1
    IN  [sock |-> setSocket(state, id),
         sockets |-> [socks EXCEPT ![id] = "connecting"]]

\* disconnectSocket: nothing without a socket in the store; otherwise
\* socket.disconnect() (whose 'disconnect' event runs setConnected(false)
\* when the socket was connected) and clearSocket.
disconnectSocket(state, socks) ==
    IF state.socket = NoSocket
    THEN [sock |-> state, sockets |-> socks]
    ELSE LET s1 == IF socks[state.socket] = "connected"
                   THEN onDisconnect(state) ELSE state
         IN  [sock |-> clearSocket(s1),
              sockets |-> [socks EXCEPT ![state.socket] = "closed"]]

\* ------------------------------------------------------- inbound payloads
ChatResponsePayloads ==
    {None} \cup
    {Some([response |-> r, confidence |-> None, engines_used |-> None,
           processing_time |-> None]) : r \in {None, Some("hi")}} \cup
    {Some([response |-> Some("hi"), confidence |-> Some(90),
           engines_used |-> Some(<<"Reasoning">>), processing_time |-> Some(2)])}

ProcessingStatusPayloads ==
    {None} \cup {Some([engines_active |-> e]) : e \in {None, Some(<<"Reasoning">>)}}

ErrorPayloads ==
    {None} \cup {Some([message |-> m]) : m \in {None, Some("boom")}}

ConnectErrorMessages == {"timeout"}

EngineLists ==
    {<<>>,
     <<Engine("Reasoning", "active", 80)>>,
     <<Engine("Reasoning", "idle", 50), Engine("Analytics", "demo", 0)>>}

SystemStatusPayloads ==
    {None} \cup
    {Some([engines |-> e, overall_health |-> h, godlike_mode |-> g,
           active_sessions |-> n, uptime |-> u]) :
        e \in {None} \cup {Some(l) : l \in EngineLists},
        h \in {None, Some("good")},
        g \in {None, Some(TRUE)},
        n \in {None, Some(0), Some(2)},
        u \in {None, Some("5m")}}

EngineActivityPayloads ==
    {None} \cup {Some([engines |-> e]) : e \in {None} \cup {Some(l) : l \in EngineLists}}

EngineNames == {"Reasoning", "Analytics", "Memory"}

\* { name, updates: Partial<Engine> }
UpdateEnginePayloads ==
    {[name |-> n, updates |-> [name |-> un, status |-> us, activity |-> ua]] :
        n \in EngineNames,
        un \in {None, Some("Analytics")},
        us \in {None, Some("error")},
        ua \in {None, Some(10)}}

\* Actions reaching the store, as the action creators build them: of the
\* chat slice, of the system slice (those handleSystemStatus dispatches)
\* and of the settings slice (the theme switch of Header).
StoreActions ==
    {ReduxAction("chat/setActiveEngines", <<>>),
     ReduxAction("chat/setCurrentInput", ""),
     ReduxAction("chat/clearMessages", None),
     ReduxAction("system/setEngines", <<Engine("Reasoning", "active", 80)>>),
     ReduxAction("system/setSystemStatus",
                 [overallHealth |-> "good", godlikeMode |-> TRUE,
                  activeSessions |-> 2, uptime |-> "5m"]),
     ReduxAction("settings/setTheme", "dark")}

\* ----------------------------------------------------------- message ids
\* The first millisecond explored; any real Date.now() is far above 1.
StartTime == 2

\* id: '1' of the welcome message of initialState.
initialIds == <<"1">>

\* id: Date.now().toString(): every message one handler run appends gets
\* the millisecond of that run (the calls are microseconds apart).
StampedIds(old, before, after, now) ==
    old \o [i \in 1..(Len(after.messages) - Len(before.messages)) |-> ToString(now)]

\* What the last handler was: its name, how it went, and its argument.
Did(op, outcome, arg) == [op |-> op, outcome |-> outcome, arg |-> arg]

\* The render that follows a handler which changed the view or the store's
\* socket; the handler's outcome is "polled" when the effect of StatusPanel
\* emitted its first request.
StatusPanelRender(op, outcome, arg) ==
    LET r == renderStatusPanel(panel, ChatMounted, mounted' /\ ~showDashboard',
                               sock.socket, sock'.socket, sendBuffer, sockets')
    IN  /\ \A s \in SocketIds : r.sendBuffer[s] <= MaxBuffered
        /\ panel' = r.panel
        /\ listeners' = renderListeners(listeners, ChatMounted,
                                        mounted' /\ ~showDashboard',
                                        sock.socket, sock'.socket)
        /\ intervals' = renderIntervals(intervals, ChatMounted,
                                        mounted' /\ ~showDashboard',
                                        MetricsMounted,
                                        mounted' /\ showDashboard' /\ tabValue' = 3,
                                        sock.socket, sock'.socket)
        /\ sendBuffer' = r.sendBuffer
        /\ last' = Did(op, IF r.polled THEN "polled" ELSE outcome, arg)

\* ------------------------------------------------------------------- Init
Init ==
    /\ chat = chatInitialState
    /\ sock = socketInitialState
    /\ system = systemInitialState
    /\ sockets = [s \in SocketIds |-> "unborn"]
    /\ wire = [s \in SocketIds |-> <<>>]
    /\ showDashboard = FALSE
    /\ mounted = FALSE
    /\ timers = 0
    /\ testing = -1
    /\ panel = panelInitialState
    /\ listeners = noListeners
    /\ intervals = noIntervals
    /\ sendBuffer = [s \in SocketIds |-> 0]
    /\ clock = StartTime
    /\ ids = initialIds
    /\ requested = 0
    /\ tabValue = 0
    /\ controlSettings = controlInitialState
    /\ outbound = {}
    /\ metrics = metricsInitialState
    /\ fetches = noFetches
    /\ last = Did("init", "", None)

\* -------------------------------------------------------------------- App
\* App's mount effect: dispatch(connectSocket()).
AppMount ==
    /\ ~mounted
    /\ Cardinality(Created) < MaxSockets
    /\ LET r == connectSocket(sock, sockets)
       IN  sock' = r.sock /\ sockets' = r.sockets
    /\ mounted' = TRUE
    /\ showDashboard' = FALSE
    /\ UNCHANGED <<system, chat, wire, timers, testing, clock, ids, requested, dashVars>>
    /\ StatusPanelRender("mount", "", None)

\* The cleanup of App's effect: dispatch(disconnectSocket()).
AppUnmount ==
    /\ mounted
    /\ LET r == disconnectSocket(sock, sockets)
       IN  sock' = r.sock /\ sockets' = r.sockets
    /\ mounted' = FALSE
    /\ tabValue' = 0
    /\ controlSettings' = controlInitialState
    /\ metrics' = metricsInitialState
    /\ fetches' = noFetches
    /\ UNCHANGED <<system, chat, wire, showDashboard, timers, testing, clock, ids, requested, outbound>>
    /\ StatusPanelRender("unmount",
                         IF sock.socket = NoSocket THEN "no_socket" ELSE "closed",
                         None)

\* The floating button: setShowDashboard(!showDashboard).
ToggleView ==
    /\ mounted
    /\ showDashboard' = ~showDashboard
    /\ tabValue' = 0
    /\ controlSettings' = controlInitialState
    /\ metrics' = metricsInitialState
    /\ fetches' = noFetches
    /\ UNCHANGED <<system, chat, sock, sockets, wire, mounted, timers, testing, clock, ids, requested,
                   outbound>>
    /\ StatusPanelRender("toggle_view", "", None)

\* -------------------------------------------------------- SupremeDashboard
\* A variant of window.socket: the socket of the redux store.
windowSocket_IsStoreSocket == sock.socket

\* (window as any).socket, which ControlCentre reads in its effect and in
\* saveSettings: no code assigns it, the socket of connectSocket goes to
\* the redux store only.
windowSocket == NoSocket

ControlMounted == mounted /\ showDashboard /\ tabValue = 2

\* handleTabChange: setTabValue(newValue). TabPanel renders its children
\* only on the selected tab, so ControlCentre mounts on tab 2, with a new
\* settings map and its effect, and is gone on any other tab.
SelectTab ==
    \E t \in 0..3 :
        /\ mounted /\ showDashboard
        /\ t # tabValue
        /\ tabValue' = t
        /\ controlSettings' = controlInitialState
        /\ outbound' = IF t = 2 THEN controlEffect(windowSocket, outbound) ELSE outbound
        /\ metrics' = metricsInitialState
        /\ fetches' = IF t = 3 THEN metricsEffect(sock.socket, noFetches) ELSE noFetches
        /\ last' = Did("select_tab",
                       IF t = 2 /\ windowSocket # NoSocket THEN "requested" ELSE "",
                       Some(t))
        /\ intervals' = renderIntervals(intervals, FALSE, FALSE,
                                        MetricsMounted, t = 3, sock.socket, sock.socket)
        /\ UNCHANGED <<chat, sock, system, sockets, wire, showDashboard, mounted, timers,
                       testing, panel, listeners, sendBuffer, clock, ids, requested>>

\* setInterval(requestMetrics, 10000) fires.
MetricsTick ==
    /\ MetricsMounted
    /\ sock.socket # NoSocket
    /\ \A ep \in Endpoints : fetches[ep] < MaxFetches
    /\ fetches' = requestMetrics(fetches)
    /\ last' = Did("metrics_tick", "", None)
    /\ UNCHANGED <<chat, sock, system, sockets, wire, showDashboard, mounted, timers,
                   testing, panel, listeners, intervals, sendBuffer, clock, ids, requested, tabValue, controlSettings,
                   outbound, metrics>>

\* A fetch of MetricsPanel is settled.
FetchSettled ==
    \E ep \in Endpoints, res \in FetchOutcomes :
        /\ fetches[ep] > 0
        /\ fetches' = [fetches EXCEPT ![ep] = @ - 1]
        /\ metrics' = IF Caught(res) THEN onFailed(metrics, ep)
                      ELSE onLoaded(metrics, ep, res.body[1])
        /\ last' = Did("fetch_settled", IF Caught(res) THEN "caught" ELSE "loaded",
                       Some([endpoint |-> ep, res |-> res]))
        /\ UNCHANGED <<chat, sock, system, sockets, wire, showDashboard, mounted, timers,
                       testing, panel, listeners, intervals, sendBuffer, clock, ids, requested, tabValue, controlSettings,
                       outbound>>

\* A switch of ControlCentre is set.
ControlChange ==
    \E k \in SwitchKeys, v \in BOOLEAN :
        /\ ControlMounted
        /\ controlSettings' = handleControlChange(controlSettings, k, v)
        /\ last' = Did("control_change", "", Some(k))
        /\ UNCHANGED <<chat, sock, system, sockets, wire, showDashboard, mounted, timers,
                       testing, panel, listeners, intervals, sendBuffer, clock, ids, requested, tabValue, outbound,
                       metrics, fetches>>

\* A slider of ControlCentre is moved.
SliderChange ==
    \E k \in SliderKeys, v \in SliderValues :
        /\ ControlMounted
        /\ controlSettings' = handleSliderChange(controlSettings, k, v)
        /\ last' = Did("slider_change", "", Some(k))
        /\ UNCHANGED <<chat, sock, system, sockets, wire, showDashboard, mounted, timers,
                       testing, panel, listeners, intervals, sendBuffer, clock, ids, requested, tabValue, outbound,
                       metrics, fetches>>

\* The save button of ControlCentre.
SaveSettings ==
    /\ ControlMounted
    /\ outbound' = saveSettings(windowSocket, controlSettings, outbound)
    /\ last' = Did("save_settings",
                   IF windowSocket # NoSocket THEN "emitted" ELSE "local",
                   None)
    /\ UNCHANGED <<chat, sock, system, sockets, wire, showDashboard, mounted, timers,
                   testing, panel, listeners, intervals, sendBuffer, clock, ids, requested, tabValue, controlSettings,
                   metrics, fetches>>

\* ---------------------------------------------------------- ChatInterface
\* onChange of the text field, which is disabled while isProcessing.
TypeInput ==
    /\ ChatMounted
    /\ ~chat.isProcessing
    /\ \E t \in Inputs :
          /\ chat' = setCurrentInput(chat, t)
          /\ last' = Did("type", "", Some(t))
    /\ UNCHANGED <<system, sock, sockets, wire, showDashboard, mounted, timers, testing,
                   panel, listeners, intervals, sendBuffer, clock, ids, requested, dashVars>>

\* Sidebar.handleQuickAction: the template replaces the input at any time.
QuickAction ==
    /\ ChatMounted
    /\ \E t \in Templates :
          /\ chat' = setCurrentInput(chat, t)
          /\ last' = Did("quick_action", "", Some(t))
    /\ UNCHANGED <<system, sock, sockets, wire, showDashboard, mounted, timers, testing,
                   panel, listeners, intervals, sendBuffer, clock, ids, requested, dashVars>>

\* handleSendMessage, from the send button or the Enter key.
SendMessage ==
    /\ ChatMounted
    /\ IF ~CanSubmit(chat)
       THEN /\ last' = Did("submit", "rejected", None)
            /\ UNCHANGED <<chat, wire, ids, requested>>
       ELSE LET r == handleSendMessage(chat, IsLive(sock.socket))
            IN  /\ Len(r.chat.messages) <= MaxMsgs
                /\ chat' = r.chat
                /\ ids' = StampedIds(ids, chat, r.chat, clock)
                /\ requested' = requested + Len(r.emitted)
                /\ wire' = IF r.emitted = <<>> THEN wire
                           ELSE [wire EXCEPT ![sock.socket] = @ \o r.emitted]
                /\ last' = Did("submit",
                               IF r.emitted = <<>> THEN "not_connected" ELSE "sent",
                               Some(chat.currentInput))
    /\ UNCHANGED <<system, sock, sockets, showDashboard, mounted, timers, testing,
                   panel, listeners, intervals, sendBuffer, clock, dashVars>>

\* handleClearChat.
ClearChat ==
    /\ ChatMounted
    /\ chat' = clearMessages(chat)
    /\ ids' = initialIds
    /\ requested' = 0
    /\ last' = Did("clear", "", Some(Len(chat.messages)))
    /\ UNCHANGED <<system, sock, sockets, wire, showDashboard, mounted, timers, testing,
                   panel, listeners, intervals, sendBuffer, clock, dashVars>>

\* ------------------------------------------------- inbound chat events
\* The backend answers the oldest unanswered chat_message of a connected
\* socket with a chat_response; the event reaches handleChatResponse only
\* if the ChatInterface listeners are on that socket.
DeliverChatResponse ==
    \E s \in SocketIds, p \in ChatResponsePayloads :
        /\ sockets[s] = "connected"
        /\ wire[s] # <<>>
        /\ wire' = [wire EXCEPT ![s] = Tail(@)]
        /\ IF ChatListening(s)
           THEN /\ Len(handleChatResponse(chat, p).messages) <= MaxMsgs
                /\ chat' = handleChatResponse(chat, p)
                /\ ids' = StampedIds(ids, chat, handleChatResponse(chat, p), clock)
                /\ last' = Did("chat_response", "handled", p)
           ELSE /\ UNCHANGED <<chat, ids>>
                /\ last' = Did("chat_response", "dropped", p)
        /\ UNCHANGED <<system, sock, sockets, showDashboard, mounted, timers, testing,
                       panel, listeners, intervals, sendBuffer, clock, requested, dashVars>>

\* The backend answers the oldest unanswered chat_message with an error.
DeliverError ==
    \E s \in SocketIds, p \in ErrorPayloads :
        /\ sockets[s] = "connected"
        /\ wire[s] # <<>>
        /\ wire' = [wire EXCEPT ![s] = Tail(@)]
        /\ IF ChatListening(s)
           THEN /\ Len(handleError(chat, p).messages) <= MaxMsgs
                /\ chat' = handleError(chat, p)
                /\ ids' = StampedIds(ids, chat, handleError(chat, p), clock)
                /\ last' = Did("error", "handled", p)
           ELSE /\ UNCHANGED <<chat, ids>>
                /\ last' = Did("error", "dropped", p)
        /\ UNCHANGED <<system, sock, sockets, showDashboard, mounted, timers, testing,
                       panel, listeners, intervals, sendBuffer, clock, requested, dashVars>>

\* While it works on a chat_message the backend reports its active engines.
DeliverProcessingStatus ==
    \E s \in SocketIds, p \in ProcessingStatusPayloads :
        /\ sockets[s] = "connected"
        /\ wire[s] # <<>>
        /\ IF ChatListening(s)
           THEN /\ chat' = handleProcessingStatus(chat, p)
                /\ last' = Did("processing_status", "handled", p)
           ELSE /\ chat' = chat
                /\ last' = Did("processing_status", "dropped", p)
        /\ UNCHANGED <<system, sock, sockets, wire, showDashboard, mounted, timers, testing,
                       panel, listeners, intervals, sendBuffer, clock, ids, requested, dashVars>>

\* ------------------------------------------------ inbound status events
\* A system_status event, pushed or in answer to a poll, on a connected
\* socket; it reaches handleSystemStatus only through StatusPanel's listener.
DeliverSystemStatus ==
    \E s \in SocketIds, p \in SystemStatusPayloads :
        /\ sockets[s] = "connected"
        /\ IF StatusListening(s)
           THEN /\ system' = handleSystemStatus(system, p)
                /\ last' = Did("system_status", "handled", p)
           ELSE /\ system' = system
                /\ last' = Did("system_status", "dropped", p)
        /\ UNCHANGED <<chat, sock, sockets, wire, showDashboard, mounted, timers, testing,
                       panel, listeners, intervals, sendBuffer, clock, ids, requested, dashVars>>

\* An engine_activity push on a connected socket.
DeliverEngineActivity ==
    \E s \in SocketIds, p \in EngineActivityPayloads :
        /\ sockets[s] = "connected"
        /\ IF StatusListening(s)
           THEN /\ system' = handleEngineActivity(system, p)
                /\ last' = Did("engine_activity", "handled", p)
           ELSE /\ system' = system
                /\ last' = Did("engine_activity", "dropped", p)
        /\ UNCHANGED <<chat, sock, sockets, wire, showDashboard, mounted, timers, testing,
                       panel, listeners, intervals, sendBuffer, clock, ids, requested, dashVars>>

\* dispatch(updateEngine(payload)): the action creator the system slice
\* exports.
DispatchUpdateEngine ==
    \E p \in UpdateEnginePayloads :
        /\ system' = updateEngine(system, p)
        /\ last' = Did("update_engine",
                       IF FindEngine(system.engines, p.name) = 0
                       THEN "unknown" ELSE "known",
                       Some(p))
        /\ UNCHANGED <<chat, sock, sockets, wire, showDashboard, mounted, timers, testing,
                       panel, listeners, intervals, sendBuffer, clock, ids, requested, dashVars>>

\* store.dispatch(action): the root reducer gives the next state of the
\* three slices.
Dispatch ==
    \E a \in StoreActions :
        LET r == rootReducer([chat |-> chat, socket |-> sock, system |-> system], a)
        IN  /\ Len(r.chat.messages) <= MaxMsgs
            /\ chat' = r.chat
            /\ sock' = r.socket
            /\ system' = r.system
            /\ ids' = IF Len(r.chat.messages) < Len(chat.messages)
                      THEN initialIds
                      ELSE StampedIds(ids, chat, r.chat, clock)
            /\ requested' = IF Len(r.chat.messages) < Len(chat.messages)
                            THEN 0 ELSE requested
            /\ last' = Did("dispatch", "", Some(a.type))
            /\ UNCHANGED <<sockets, wire, showDashboard, mounted, timers, testing,
                           panel, listeners, intervals, sendBuffer, clock, dashVars>>

\* --------------------------------------------------------------- the clock
\* A millisecond passes.
Tick ==
    /\ clock < MaxClock
    /\ clock' = clock + 1
    /\ last' = Did("tick", "", None)
    /\ UNCHANGED <<chat, sock, system, sockets, wire, showDashboard, mounted, timers,
                   testing, panel, listeners, intervals, sendBuffer, ids, requested, dashVars>>

\* ------------------------------------------------------------ the poller
\* The interval of StatusPanel's effect fires: requestStatus on the socket
\* the effect ran with.
PollTick ==
    /\ panel.interval # NoSocket
    /\ LET s == panel.interval
           buffer == requestStatus(sendBuffer, sockets, s)
       IN  /\ buffer[s] <= MaxBuffered
           /\ sendBuffer' = buffer
           /\ last' = Did("poll_tick",
                          IF sockets[s] = "connected" THEN "sent" ELSE "buffered",
                          Some(s))
    /\ UNCHANGED <<chat, sock, system, sockets, wire, showDashboard, mounted, timers,
                   testing, panel, listeners, intervals, clock, ids, requested, dashVars>>

\* ------------------------------------------- socket lifecycle callbacks
\* socket.on('connect'): the handler of any socket writes the one store.
SocketConnect ==
    \E s \in SocketIds :
        /\ sockets[s] \in {"connecting", "retrying"}
        /\ sockets' = [sockets EXCEPT ![s] = "connected"]
        /\ sock' = onConnect(sock)
        /\ sendBuffer' = [sendBuffer EXCEPT ![s] = 0]
        /\ last' = Did("connect", IF sendBuffer[s] > 0 THEN "flushed" ELSE "", Some(s))
        /\ UNCHANGED <<system, chat, wire, showDashboard, mounted, timers, testing, panel, listeners, intervals, clock, ids, requested, dashVars>>

\* socket.on('disconnect') after the transport dropped; socket.io then
\* retries on its own.
SocketDrop ==
    \E s \in SocketIds :
        /\ sockets[s] = "connected"
        /\ sockets' = [sockets EXCEPT ![s] = "retrying"]
        /\ sock' = onDisconnect(sock)
        /\ last' = Did("disconnect", "", Some(s))
        /\ UNCHANGED <<system, chat, wire, showDashboard, mounted, timers, testing,
                       panel, listeners, intervals, sendBuffer, clock, ids, requested, dashVars>>

\* socket.on('connect_error') of a failed attempt; socket.io retries.
SocketConnectError ==
    \E s \in SocketIds, m \in ConnectErrorMessages :
        /\ sockets[s] \in {"connecting", "retrying"}
        /\ sockets' = [sockets EXCEPT ![s] = "retrying"]
        /\ sock' = onConnectError(sock, m)
        /\ last' = Did("connect_error",
                       IF sock.isConnected THEN "was_connected" ELSE "",
                       Some(m))
        /\ UNCHANGED <<system, chat, wire, showDashboard, mounted, timers, testing,
                       panel, listeners, intervals, sendBuffer, clock, ids, requested, dashVars>>

\* ------------------------------------------------------- ConnectionTest
\* runConnectionTest up to its first await: the closure holds the socket
\* the store had when the component rendered.
TestStart ==
    /\ testing = -1
    /\ testing' = sock.socket
    /\ last' = Did("test_start", "", None)
    /\ UNCHANGED <<system, chat, sock, sockets, wire, showDashboard, mounted, timers,
                   panel, listeners, intervals, sendBuffer, clock, ids, requested, dashVars>>

\* runConnectionTest after the fetch: Test 3 disconnects and sets the
\* one-second reconnect timer unless the captured socket is connected.
TestFinish ==
    /\ testing # -1
    /\ IF ~IsLive(testing)
       THEN /\ timers < MaxTimers
            /\ LET r == disconnectSocket(sock, sockets)
               IN  sock' = r.sock /\ sockets' = r.sockets
            /\ timers' = timers + 1
       ELSE UNCHANGED <<sock, sockets, timers>>
    /\ testing' = -1
    /\ fetches' = metricsRerun(MetricsMounted, sock.socket, sock'.socket, fetches)
    /\ \A ep \in Endpoints : fetches'[ep] <= MaxFetches
    /\ UNCHANGED <<system, chat, wire, showDashboard, mounted, clock, ids, requested,
                   tabValue, controlSettings, outbound, metrics>>
    /\ StatusPanelRender("test_finish",
                         IF ~IsLive(testing) THEN "reconnecting"
                         ELSE "already_connected",
                         None)

\* The timer of Test 3 fires: dispatch(connectSocket()).
ReconnectTimer ==
    /\ timers > 0
    /\ Cardinality(Created) < MaxSockets
    /\ timers' = timers - 1
    /\ LET r == connectSocket(sock, sockets)
       IN  sock' = r.sock /\ sockets' = r.sockets
    /\ fetches' = metricsRerun(MetricsMounted, sock.socket, sock'.socket, fetches)
    /\ \A ep \in Endpoints : fetches'[ep] <= MaxFetches
    /\ UNCHANGED <<system, chat, wire, showDashboard, mounted, testing, clock, ids, requested,
                   tabValue, controlSettings, outbound, metrics>>
    /\ StatusPanelRender("reconnect_timer", "", None)

\* The conversation: the chat view, its inbound events and the connection
\* under it.
Next ==
    \/ AppMount
    \/ AppUnmount
    \/ ToggleView
    \/ TypeInput
    \/ QuickAction
    \/ SendMessage
    \/ ClearChat
    \/ DeliverChatResponse
    \/ DeliverError
    \/ DeliverProcessingStatus
    \/ SocketConnect
    \/ SocketDrop
    \/ SocketConnectError

Spec == Init /\ [][Next]_vars

\* The conversation with a transport that goes on: an attempt to connect
\* ends, and an answer that is due is delivered.
SpecProgress ==
    /\ Init
    /\ [][Next]_vars
    /\ WF_vars(SocketConnect)
    /\ WF_vars(DeliverChatResponse)
    /\ WF_vars(DeliverError)

\* The connection: the socket thunks, the lifecycle callbacks and the
\* reconnections of the connection test.
NextConn ==
    \/ AppMount
    \/ AppUnmount
    \/ SocketConnect
    \/ SocketDrop
    \/ SocketConnectError
    \/ TestStart
    \/ TestFinish
    \/ ReconnectTimer

SpecConn == Init /\ [][NextConn]_vars

\* The system status: the status events and the connection under them.
NextStatus ==
    \/ AppMount
    \/ AppUnmount
    \/ ToggleView
    \/ SocketConnect
    \/ SocketDrop
    \/ DeliverSystemStatus
    \/ DeliverEngineActivity

SpecStatus == Init /\ [][NextStatus]_vars

\* The engine list: engine_activity events and single-engine updates.
NextEngines ==
    \/ AppMount
    \/ SocketConnect
    \/ DeliverEngineActivity
    \/ DispatchUpdateEngine

SpecEngines == Init /\ [][NextEngines]_vars

\* The poller: StatusPanel's effect, its interval and its listeners over
\* the connection.
NextPoller ==
    \/ AppMount
    \/ AppUnmount
    \/ ToggleView
    \/ SocketConnect
    \/ SocketDrop
    \/ PollTick
    \/ DeliverEngineActivity

SpecPoller == Init /\ [][NextPoller]_vars

\* The message ids: the handlers that append messages, under a running
\* clock.
NextIds ==
    \/ AppMount
    \/ SocketConnect
    \/ TypeInput
    \/ SendMessage
    \/ ClearChat
    \/ DeliverChatResponse
    \/ DeliverError
    \/ Tick

SpecIds == Init /\ [][NextIds]_vars

\* The control settings: the dashboard's ControlCentre over the connection.
NextSettings ==
    \/ AppMount
    \/ AppUnmount
    \/ ToggleView
    \/ SelectTab
    \/ ControlChange
    \/ SliderChange
    \/ SaveSettings
    \/ SocketConnect
    \/ SocketDrop

SpecSettings == Init /\ [][NextSettings]_vars

\* The metrics: MetricsPanel's fetches on the dashboard.
NextMetrics ==
    \/ AppMount
    \/ ToggleView
    \/ SelectTab
    \/ SocketConnect
    \/ MetricsTick
    \/ FetchSettled

SpecMetrics == Init /\ [][NextMetrics]_vars

\* The store: the conversation, the status events and the settings of
\* ControlCentre side by side, and actions dispatched to the store.
NextStore ==
    \/ AppMount
    \/ SocketConnect
    \/ TypeInput
    \/ SendMessage
    \/ ClearChat
    \/ DeliverChatResponse
    \/ DeliverError
    \/ DeliverProcessingStatus
    \/ DeliverSystemStatus
    \/ DeliverEngineActivity
    \/ Dispatch

SpecStore == Init /\ [][NextStore]_vars

\* The listeners: the views, the reconnections of the connection test
\* and the events that reach the handlers.
NextListeners ==
    \/ AppMount
    \/ AppUnmount
    \/ ToggleView
    \/ TestStart
    \/ TestFinish
    \/ ReconnectTimer
    \/ SocketConnect
    \/ DeliverEngineActivity

SpecListeners == Init /\ [][NextListeners]_vars

\* The timers: the views and tabs, the reconnections of the connection
\* test, and the ticks of the two intervals.
NextTimers ==
    \/ AppMount
    \/ AppUnmount
    \/ ToggleView
    \/ SelectTab
    \/ TestStart
    \/ TestFinish
    \/ ReconnectTimer
    \/ SocketConnect
    \/ PollTick
    \/ MetricsTick

SpecTimers == Init /\ [][NextTimers]_vars

TypeOK ==
    /\ chat.isProcessing \in BOOLEAN
    /\ Len(chat.messages) \in 1..MaxMsgs
    /\ sock.socket \in SocketIds \cup {NoSocket}
    /\ \A s \in SocketIds : sockets[s] \in SocketStatus
    /\ timers \in 0..MaxTimers
    /\ \A s \in SocketIds : sendBuffer[s] \in 0..MaxBuffered
    /\ panel.interval = panel.listening
    /\ clock \in StartTime..MaxClock
    /\ tabValue \in 0..3
    /\ \A ep \in Endpoints : fetches[ep] \in 0..MaxFetches
    /\ controlSettings.systemAccess \in BOOLEAN
    /\ Len(ids) = Len(chat.messages)
    /\ panel.listening = (IF ChatMounted THEN sock.socket ELSE NoSocket)
    /\ \A s \in SocketIds : listeners[s].chat \in 0..1 /\ listeners[s].status \in 0..1
    /\ intervals.status \in 0..1 /\ intervals.metrics \in 0..1
    /\ requested \in 0..MaxMsgs

\* ======================================================== the properties
IsPrefix(a, b) == Len(a) <= Len(b) /\ SubSeq(b, 1, Len(a)) = a

\* The messages `new` has after the ones of `old`.
Appended(old, new) == SubSeq(new, Len(old) + 1, Len(new))

IsBlank(t) == Trim(Chars(t)) = <<>>

\* The chat_message requests emitted and not answered yet, on any socket.
Unanswered == {<<s, i>> \in SocketIds \X (1..MaxMsgs) : i <= Len(wire[s])}

\* C1: a submit issued while isProcessing is true, or with empty or
\* whitespace-only text, changes nothing of the conversation and emits no
\* chat_message; so at most one request is in flight at a time.
C1_SingleFlight ==
    [][ /\ (last'.op = "submit" /\ (chat.isProcessing \/ IsBlank(chat.currentInput)))
             => (chat' = chat /\ wire' = wire)
        /\ Cardinality(Unanswered') <= 1 ]_vars

\* A submit was issued with text in the box while a request was in flight,
\* and it was rejected.
C1_Witness ==
    /\ last.op = "submit" /\ last.outcome = "rejected"
    /\ chat.isProcessing
    /\ ~IsBlank(chat.currentInput)
    /\ Cardinality(Unanswered) = 1

\* C2: isProcessing goes from true to false only in a step that handles an
\* inbound chat_response or an inbound error event (the not-connected
\* branch of submit sets and resets it inside one handler run); no timeout,
\* disconnect, clear, view switch or other step does.
C2_Resolution ==
    [][ (chat.isProcessing /\ ~chat'.isProcessing)
            => (last'.op \in {"chat_response", "error"} /\ last'.outcome = "handled") ]_vars

\* A request in flight was resolved by an error event.
C2_Witness ==
    /\ last.op = "error" /\ last.outcome = "handled"
    /\ ~chat.isProcessing
    /\ chat.messages[Len(chat.messages)].type = "system"
    /\ Len(chat.messages) = 3

\* C3: isProcessing is true exactly when a chat_message has been sent and
\* no chat_response or error for it has been received yet.
C3_ProcessingIffOutstanding ==
    chat.isProcessing <=> (Unanswered # {})

\* C4: every step other than clear leaves the old log as a prefix of the new
\* one; clear leaves a log of length 1.
C4_AppendOnly ==
    [][ IF last'.op = "clear"
        THEN Len(chat'.messages) = 1
        ELSE IsPrefix(chat.messages, chat'.messages) ]_vars

\* A log of several messages was cleared down to one.
C4_Witness ==
    /\ last.op = "clear"
    /\ last.arg # None /\ last.arg[1] > 1
    /\ Len(chat.messages) = 1

\* C5: connect() is a no-op while a socket is connecting or connected, so
\* there is never more than one live socket.
C5_OneLiveSocket ==
    Cardinality({s \in SocketIds :
                    sockets[s] \in {"connecting", "retrying", "connected"}}) <= 1

\* C6: a submit accepted while the transport is not connected emits no
\* chat_message, appends exactly one system message, the not-connected
\* notice, and ends with isProcessing false; and a chat_message is only ever
\* emitted by a submit accepted while connected, never later on reconnect.
C6_SubmitNotConnected ==
    [][ /\ (/\ last'.op = "submit"
            /\ ~chat.isProcessing /\ ~IsBlank(chat.currentInput)
            /\ ~IsLive(sock.socket))
             => /\ wire' = wire
                /\ IsPrefix(chat.messages, chat'.messages)
                /\ LET new == Appended(chat.messages, chat'.messages)
                   IN  /\ Cardinality({i \in 1..Len(new) : new[i].type = "system"}) = 1
                       /\ \A i \in 1..Len(new) :
                             new[i].type = "system" => new[i].content = NotConnectedText
                /\ ~chat'.isProcessing
        /\ (wire' # wire /\ Cardinality(Unanswered') > Cardinality(Unanswered))
             => (/\ last'.op = "submit"
                 /\ ~chat.isProcessing /\ ~IsBlank(chat.currentInput)
                 /\ IsLive(sock.socket)) ]_vars

\* A submit was accepted with no connected socket: the notice is the last
\* message and nothing is on the wire.
C6_Witness ==
    /\ last.op = "submit" /\ last.outcome = "not_connected"
    /\ chat.messages[Len(chat.messages)] = PlainMsg("system", NotConnectedText)
    /\ ~chat.isProcessing
    /\ Unanswered = {}

\* C7: a submit accepted while connected appends exactly one user message
\* whose content is the draft text, sets isProcessing, empties the draft and
\* emits exactly one chat_message carrying that text.
C7_SubmitConnected ==
    [][ (/\ last'.op = "submit"
         /\ ~chat.isProcessing /\ ~IsBlank(chat.currentInput)
         /\ IsLive(sock.socket))
            => /\ chat'.messages = Append(chat.messages, PlainMsg("user", chat.currentInput))
               /\ chat'.isProcessing
               /\ chat'.currentInput = ""
               /\ wire' = [wire EXCEPT ![sock.socket] =
                              Append(@, [message |-> chat.currentInput])] ]_vars

\* A text with a leading blank was submitted over a connected socket.
C7_Witness ==
    /\ last.op = "submit" /\ last.outcome = "sent"
    /\ last.arg = Some(" hi")
    /\ chat.isProcessing
    /\ chat.messages[Len(chat.messages)] = PlainMsg("user", " hi")
    /\ wire[sock.socket] = <<[message |-> " hi"]>>

\* C8: every chat_response the transport delivers appends exactly one
\* assistant message, whose content is the payload's response when it has
\* one, sets isProcessing to false and empties activeEngines.
C8_EveryChatResponseHandled ==
    [][ (last'.op = "chat_response")
            => /\ Len(chat'.messages) = Len(chat.messages) + 1
               /\ IsPrefix(chat.messages, chat'.messages)
               /\ chat'.messages[Len(chat'.messages)].type = "assistant"
               /\ (last'.arg # None /\ last'.arg[1].response # None)
                    => chat'.messages[Len(chat'.messages)].content = last'.arg[1].response[1]
               /\ ~chat'.isProcessing
               /\ chat'.activeEngines = <<>> ]_vars

\* C9: an error event that arrives while a request is processing appends
\* exactly one system message, sets isProcessing to false and empties
\* activeEngines.
C9_ErrorWhileProcessing ==
    [][ (last'.op = "error" /\ chat.isProcessing)
            => /\ Len(chat'.messages) = Len(chat.messages) + 1
               /\ IsPrefix(chat.messages, chat'.messages)
               /\ chat'.messages[Len(chat'.messages)].type = "system"
               /\ ~chat'.isProcessing
               /\ chat'.activeEngines = <<>> ]_vars

\* C10: applying a system_status payload a second time changes nothing:
\* for every payload, from every SystemStatus the store can hold.
C10_FullStatusIdempotent ==
    \A p \in SystemStatusPayloads :
        handleSystemStatus(handleSystemStatus(system, p), p)
            = handleSystemStatus(system, p)

\* A payload with engines was applied over a store that already held
\* engines, and applying it again would leave the store as it is.
C10_Witness ==
    /\ last.op = "system_status" /\ last.outcome = "handled"
    /\ last.arg # None /\ last.arg[1].engines # None
    /\ Len(system.engines) = 2
    /\ system.activeSessions = 2
    /\ system = handleSystemStatus(system, last.arg)

\* The value of an optional field, or d when the field is missing.
Given(opt, d) == IF opt = None THEN d ELSE opt[1]

\* The names of a list of engines are pairwise different.
UniqueNames(engines) ==
    \A i, j \in 1..Len(engines) :
        engines[i].name = engines[j].name => i = j

\* A handled status event that carries a list of engines.
CarriesEngines(l) ==
    /\ l.op \in {"system_status", "engine_activity"}
    /\ l.outcome = "handled"
    /\ l.arg # None
    /\ l.arg[1].engines # None

\* C11: a handled system_status payload with engines replaces the engines
\* by its list and overwrites every aggregate with the payload's value, a
\* missing field becoming 'unknown', false, 0 and '0m'; a payload that
\* reports n active sessions leaves activeSessions = n, for every n >= 0.
C11_FullStatusApplied ==
    [][ (last'.op = "system_status" /\ CarriesEngines(last'))
            => LET st == last'.arg[1]
               IN  /\ system'.engines = st.engines[1]
                   /\ system'.overallHealth = Given(st.overall_health, "unknown")
                   /\ system'.godlikeMode = Given(st.godlike_mode, FALSE)
                   /\ system'.activeSessions = Given(st.active_sessions, 0)
                   /\ system'.uptime = Given(st.uptime, "0m") ]_vars

\* C12: an engine_activity event changes nothing but the engines: the
\* four aggregates, the conversation and the connection state stay as they
\* were, and the engines become the list of the payload.
C12_EngineActivityFrame ==
    [][ last'.op = "engine_activity"
            => /\ system'.overallHealth = system.overallHealth
               /\ system'.godlikeMode = system.godlikeMode
               /\ system'.activeSessions = system.activeSessions
               /\ system'.uptime = system.uptime
               /\ chat' = chat
               /\ sock' = sock
               /\ sockets' = sockets
               /\ (CarriesEngines(last')
                      => system'.engines = last'.arg[1].engines[1]) ]_vars

\* An engine_activity event replaced the engines of a store whose
\* aggregates an earlier system_status had set, and they are still there.
C12_Witness ==
    /\ last.op = "engine_activity" /\ CarriesEngines(last)
    /\ system.engines = last.arg[1].engines[1]
    /\ Len(system.engines) = 2
    /\ system.overallHealth = "good"
    /\ system.godlikeMode
    /\ system.activeSessions = 2
    /\ system.uptime = "5m"

\* C13: the engines are always the list of the latest handled status
\* event that carried one: such an event leaves exactly its list, with one
\* entry per name, and nothing else ever changes the engines.
C13_LastWriterWins ==
    [][ /\ CarriesEngines(last')
            => /\ system'.engines = last'.arg[1].engines[1]
               /\ UniqueNames(system'.engines)
        /\ system'.engines # system.engines => CarriesEngines(last') ]_vars

\* An engine_activity list was applied after a system_status had been
\* handled: the engines are the one entry of the later event.
C13_Witness ==
    /\ last.op = "engine_activity" /\ CarriesEngines(last)
    /\ system.engines = <<Engine("Reasoning", "active", 80)>>
    /\ system.engines = last.arg[1].engines[1]
    /\ system.activeSessions = 2

C15_NoPollWhileDisconnected ==
    [][ ( /\ last'.op = "poll_tick" \/ last'.outcome = "polled"
          /\ sockets'[panel'.interval] # "connected" )
            => sendBuffer' = sendBuffer ]_vars

\* C16: when StatusPanel mounts with a socket in the store, one request is
\* emitted at once and the interval is armed on that socket; each tick
\* emits one request, and only while StatusPanel is mounted; once it is
\* unmounted the interval and the listeners are gone, and the system slice
\* changes only through a listener of the mounted panel.
C16_PollerLifecycle ==
    [][ /\ (~ChatMounted /\ ChatMounted' /\ sock'.socket # NoSocket)
            => /\ last'.outcome = "polled"
               /\ sockets'[sock'.socket] # "connected"
                      => sendBuffer'[sock'.socket] = sendBuffer[sock'.socket] + 1
        /\ (ChatMounted' /\ sock'.socket # NoSocket)
            => panel' = [interval |-> sock'.socket, listening |-> sock'.socket]
        /\ last'.op = "poll_tick"
            => /\ ChatMounted
               /\ last'.arg = Some(sock.socket)
               /\ IF sockets[sock.socket] = "connected"
                  THEN last'.outcome = "sent" /\ sendBuffer' = sendBuffer
                  ELSE sendBuffer' = [sendBuffer EXCEPT ![sock.socket] = @ + 1]
        /\ ~ChatMounted' => panel' = panelInitialState
        /\ system' # system => ChatMounted /\ panel.listening # NoSocket ]_vars

\* In the dashboard view, with the socket still connected, an
\* engine_activity event with another list arrived and left the engines
\* of the store as they were: the interval and the listeners are gone.
C16_Witness ==
    /\ last.op = "engine_activity" /\ last.outcome = "dropped"
    /\ last.arg # None /\ last.arg[1].engines # None
    /\ last.arg[1].engines[1] # system.engines
    /\ system.engines # <<>>
    /\ mounted /\ showDashboard
    /\ IsLive(sock.socket)
    /\ panel = panelInitialState

\* C17: after the 'connect' handler the store is connected with no error;
\* after the 'disconnect' handler it is not connected; after the
\* 'connect_error' handler the message is recorded and the store is not
\* connected, also when it was connected before; isConnected never stands
\* next to a recorded error.
C17_LifecycleCallbacks ==
    [][ /\ last'.op = "connect"
            => sock'.isConnected /\ sock'.error = None
        /\ last'.op = "disconnect"
            => ~sock'.isConnected
        /\ last'.op = "connect_error"
            => sock'.error = last'.arg /\ sock'.error # None /\ ~sock'.isConnected
        /\ ~(sock'.isConnected /\ sock'.error # None) ]_vars

\* A connection attempt failed while the store said connected (another
\* socket was): the message is recorded and the store is not connected.
C17_Witness ==
    /\ last.op = "connect_error" /\ last.outcome = "was_connected"
    /\ sock.error = Some("timeout")
    /\ ~sock.isConnected

\* Whether the thunk of a step was disconnectSocket.
CalledDisconnect(l) ==
    \/ l.op = "unmount"
    \/ l.op = "test_finish" /\ l.outcome = "reconnecting"

\* C18: disconnectSocket with a socket in the store closes that socket and
\* leaves the store with no socket, not connected and without error;
\* disconnectSocket with no socket in the store, after an earlier call or
\* before any socket was made, changes neither the store nor any socket;
\* a second call right after a first one changes nothing.
C18_DisconnectIdempotent ==
    [][ CalledDisconnect(last')
            => /\ IF sock.socket # NoSocket
                  THEN /\ sockets' = [sockets EXCEPT ![sock.socket] = "closed"]
                       /\ sock' = socketInitialState
                  ELSE sock' = sock /\ sockets' = sockets
               /\ disconnectSocket(sock', sockets')
                      = [sock |-> sock', sockets |-> sockets'] ]_vars

\* The connection test had closed the store's socket; App then unmounted
\* and its disconnectSocket found no socket.
C18_Witness ==
    /\ last.op = "unmount" /\ last.outcome = "no_socket"
    /\ \E s \in SocketIds : sockets[s] = "closed"
    /\ sock = socketInitialState

\* C19: there is no automatic reconnection: a socket that has reported a
\* close or a failed attempt never becomes connected again; the store gets
\* back to connected only through disconnectSocket and a new connectSocket.
C19_NoAutomaticReconnection ==
    [][ \A s \in SocketIds :
            sockets[s] = "retrying" => sockets'[s] # "connected" ]_vars

\* C20: clearMessages leaves the one welcome message and changes nothing
\* else: isProcessing, activeEngines, currentInput, the socket slice, the
\* system slice and the requests under way are as before, also while a
\* request is in flight.
C20_ClearFrame ==
    [][ last'.op = "clear"
            => /\ chat'.messages = chatInitialState.messages
               /\ chat' = [chat EXCEPT !.messages = chatInitialState.messages]
               /\ sock' = sock
               /\ system' = system
               /\ sockets' = sockets
               /\ wire' = wire ]_vars

\* The log was cleared while a request was in flight and a draft was in
\* the input field: one message is left, the flag and the draft stand.
C20_Witness ==
    /\ last.op = "clear" /\ last.arg[1] > 1
    /\ Len(chat.messages) = 1
    /\ chat.isProcessing
    /\ chat.currentInput # ""
    /\ \E s \in SocketIds : wire[s] # <<>>

\* An inbound event of the conversation or of the system status.
InboundOps ==
    {"chat_response", "processing_status", "error", "system_status", "engine_activity"}

C26_NoEscapingError ==
    [][ (last'.op \in InboundOps /\ last'.outcome = "handled")
            => /\ ~handlerThrows(last'.op, last'.arg)
               /\ last'.op \in {"chat_response", "error"}
                      => ~chat'.isProcessing ]_vars

\* C27: a chat_response without response gives a message with the
\* placeholder text; without confidence, engines_used or processing_time
\* the message has no such field.
C27_MissingFieldsAbsent ==
    [][ (last'.op = "chat_response" /\ last'.outcome = "handled" /\ last'.arg # None)
            => LET r == last'.arg[1]
                   m == chat'.messages[Len(chat'.messages)]
               IN  /\ m.content = Given(r.response, NoResponseText)
                   /\ m.confidence = r.confidence
                   /\ m.enginesUsed = r.engines_used
                   /\ m.processingTime = r.processing_time ]_vars

\* C30: the log is never empty and its first message is the welcome
\* message of the initial state.
C30_SeedFirst ==
    /\ Len(chat.messages) >= 1
    /\ chat.messages[1] = chatInitialState.messages[1]

\* A log that grew to its full length still starts with the welcome message.
C30_Witness ==
    /\ Len(chat.messages) = MaxMsgs
    /\ chat.messages[2].type = "user"
    /\ chat.messages[1].type = "system"
    /\ chat.messages[1].content = WelcomeText

\* C25: all messages of the log have pairwise different ids, the welcome
\* message and messages made in one handler run or in one millisecond
\* included.
C25_UniqueIds ==
    \A i, j \in 1..Len(ids) : ids[i] = ids[j] => i = j

C24_RequestOnMount ==
    [][ (last'.op = "select_tab" /\ last'.arg = Some(2) /\ IsLive(sock.socket))
            => Emitted("get_control_settings", None) \in outbound' ]_vars

\* C28: a fetch of MetricsPanel that succeeds (a response of an ok
\* status with a JSON body) replaces its field with that body and leaves
\* the other field; a fetch that fails (rejected, an error status, or a
\* body that is no JSON) leaves both fields as they were and sets the
\* error.
C28_PolledReads ==
    [][ last'.op = "fetch_settled"
            => LET ep == last'.arg[1].endpoint
                   res == last'.arg[1].res
               IN  IF ~res.rejected /\ res.ok /\ res.body # None
                   THEN /\ ep = "metrics"
                            => /\ metrics'.systemMetrics = res.body
                               /\ metrics'.performanceReport = metrics.performanceReport
                        /\ ep = "performance"
                            => /\ metrics'.performanceReport = res.body
                               /\ metrics'.systemMetrics = metrics.systemMetrics
                   ELSE /\ metrics'.systemMetrics = metrics.systemMetrics
                        /\ metrics'.performanceReport = metrics.performanceReport
                        /\ metrics'.error # None ]_vars

\* The operations on the conversation and the status events, and the
\* action types of the chat, system and settings slices.
ConversationOps == {"type", "submit", "chat_response", "error", "processing_status", "clear"}

StatusOps == {"system_status", "engine_activity"}

ChatTypes ==
    {"chat/addMessage", "chat/setProcessing", "chat/setActiveEngines",
     "chat/setCurrentInput", "chat/clearMessages"}

SystemTypes == {"system/setEngines", "system/updateEngine", "system/setSystemStatus"}

SettingsTypes == {"settings/setTheme", "settings/setUserProfile", "settings/setPreferences"}

\* C29: an operation on the conversation, and an action of the chat or
\* the settings slice reaching the store, leaves the system status as it
\* was; a system_status or engine_activity event, and an action of the
\* system slice, leaves the conversation and the connection state as they
\* were.
C29_StoreIsolation ==
    [][ /\ last'.op \in ConversationOps => system' = system
        /\ last'.op \in StatusOps => chat' = chat /\ sock' = sock
        /\ last'.op = "dispatch" /\ last'.arg[1] \in ChatTypes \cup SettingsTypes
               => system' = system
        /\ last'.op = "dispatch" /\ last'.arg[1] \in SystemTypes \cup SettingsTypes
               => chat' = chat /\ sock' = sock ]_vars

\* The conversation was cleared while the system status held what a
\* system_status event had brought, and it still holds it.
C29_Witness ==
    /\ last.op \in {"clear", "dispatch"}
    /\ last.op = "dispatch" => last.arg = Some("chat/clearMessages")
    /\ Len(chat.messages) = 1
    /\ system.engines # <<>>
    /\ system.overallHealth = "good"

\* The sockets that are connecting, retrying or connected.
LiveSockets == {s \in SocketIds : sockets[s] \in {"connecting", "retrying", "connected"}}

\* C31: when a reconnection of the connection test has run its connect()
\* and no test run or reconnect timer is pending, exactly one socket is
\* live and it is the socket of the store.
C31_ReconnectLeavesOneSocket ==
    (last.op = "reconnect_timer" /\ timers = 0 /\ testing = -1)
        => LiveSockets = {sock.socket}

\* The handlers a component has over all sockets.
HandlersOf(component) ==
    LET RECURSIVE Sum(_)
        Sum(S) == IF S = {} THEN 0
                  ELSE LET s == CHOOSE x \in S : TRUE
                       IN  listeners[s][component] + Sum(S \ {s})
    IN  Sum(SocketIds)

\* C32: ChatInterface and StatusPanel each have their handlers on one
\* socket at most, once: on the store's socket while the chat view is
\* mounted and on no socket otherwise, so an event reaches each handler
\* once.
C32_ListenerDiscipline ==
    /\ HandlersOf("chat") <= 1
    /\ HandlersOf("status") <= 1
    /\ \A s \in SocketIds :
           /\ listeners[s].chat = (IF ChatListening(s) THEN 1 ELSE 0)
           /\ listeners[s].status = (IF StatusListening(s) THEN 1 ELSE 0)

\* The connection test replaced the store's socket under the mounted chat
\* view: the handlers are on the new socket and the old one has none.
C32_Witness ==
    /\ last.op = "reconnect_timer"
    /\ ChatMounted
    /\ sock.socket = 2
    /\ listeners[2] = [chat |-> 1, status |-> 1]
    /\ listeners[1] = [chat |-> 0, status |-> 0]
    /\ sockets[1] # "unborn"

\* C33: once the transport has delivered the chat_response or the error
\* that answers a request, isProcessing becomes false, in whatever view
\* the event arrived, as long as App stays mounted.
C33_RequestCycleProgress ==
    (last.op \in {"chat_response", "error"}) ~> (~chat.isProcessing \/ ~mounted)

\* C34: when the store says connected, it holds a socket, that socket
\* is connected, and no error is recorded.
C34_ConnectionStateConsistent ==
    sock.isConnected
        => /\ sock.socket # NoSocket
           /\ sockets[sock.socket] = "connected"
           /\ sock.error = None

\* C35: StatusPanel and MetricsPanel each have one timer at most, and
\* have it exactly while they are mounted with a socket in the store;
\* StatusPanel's timer is the one on the store's socket.
C35_OnePollTimer ==
    /\ intervals.status = (IF ChatMounted /\ sock.socket # NoSocket THEN 1 ELSE 0)
    /\ intervals.metrics = (IF MetricsMounted /\ sock.socket # NoSocket THEN 1 ELSE 0)
    /\ intervals.status = 1 => panel.interval = sock.socket

\* The connection test replaced the store's socket under the mounted
\* StatusPanel: one timer is live, on the new socket.
C35_Witness ==
    /\ last.op = "reconnect_timer"
    /\ ChatMounted
    /\ sock.socket = 2 /\ sockets[1] # "unborn"
    /\ panel.interval = 2
    /\ intervals.status = 1

\* The assistant messages of a log.
AssistantCount(messages) ==
    Cardinality({i \in 1..Len(messages) : messages[i].type = "assistant"})

\* C36: the log never holds more assistant messages than chat_message
\* requests were emitted since it was last cleared.
C36_ResponsesMatchRequests ==
    AssistantCount(chat.messages) <= requested

\* The step settles the second fetch of a round of requestMetrics whose
\* first fetch was settled by the step before: one fetch is in flight, of
\* the endpoint the last settled fetch was not for, and it is settled now.
RoundCompletes ==
    /\ last.op = "fetch_settled"
    /\ last'.op = "fetch_settled"
    /\ fetches[last.arg[1].endpoint] = 0
    /\ last'.arg[1].endpoint # last.arg[1].endpoint
    /\ fetches[last'.arg[1].endpoint] = 1

\* C37: once both fetches of a round of requestMetrics have completed, in
\* either order, the error of MetricsPanel is set exactly if one of the
\* two fetches failed.
C37_RoundErrorFlag ==
    [][ RoundCompletes
            => (metrics'.error # None
                    <=> (last.outcome = "caught" \/ last'.outcome = "caught")) ]_vars

====
